---- MODULE Spec2Model ----
(***************************************************************************)
(* Proof of Contract Stake (PoCS): the per-contract reputation / stake     *)
(* score ledger of pallets/contracts/src/stake/mod.rs.                     *)
(*                                                                         *)
(* State: the two storage maps StakeInfoMap and DelegateInfoMap, the       *)
(* current block number, and an observation of the operation performed    *)
(* last (its arguments, the records it read, its return value and the      *)
(* events it deposited).                                                   *)
(***************************************************************************)
EXTENDS Integers, Sequences, FiniteSets, TLC

\* ------------------------------------------------------------------ bounds

\* Highest block number the clock is driven to (blocks 0..MaxBlock).
MaxBlock == 3

\* Highest block number in the specifications that follow every contract.
MaxBlockLedger == 1

\* u128::MAX, the ceiling of stake_score, scaled down so that saturation is
\* reached within the block and gas bounds.
U128Max == 35

\* u32::MAX, the ceiling of reputation, scaled down likewise.
U32Max == 6

\* ------------------------------------------------------------- constants

MIN_REPUTATION == 3

REPUTATION_FACTOR == 1

INITIAL_STAKE_SCORE == 0

\* Accounts that sign invocations / receive delegations, and contract
\* addresses (both are T::AccountId in the pallet).
Accounts == {"O", "V"}

ContractAddrs == {"C", "D"}

\* Gas values reported by an invocation (u64).
GasValues == {0, 5, 7, 10}

\* Gas values reported in the specifications that follow every contract.
LedgerGasValues == {0, 20}

\* Absent storage entry (Option::None).
None == [none |-> TRUE]

\* The contract the single-contract specifications follow.
Subject == "C"

VARIABLES
    now,              \* frame_system::Pallet::<T>::block_number()
    StakeInfoMap,     \* contract -> StakeInfo or None
    DelegateInfoMap,  \* contract -> DelegateInfo or None
    events,           \* events deposited by the operation performed last
    call,             \* the operation performed last, with what it read and returned
    matured,          \* contracts that have ever had owner # delegate_to
    called,           \* contract -> block heights at which stake() was called
                      \* for it, from its bootstrap on
    step              \* position in the scenario script (0 outside scenarios)

vars == <<now, StakeInfoMap, DelegateInfoMap, events, call, matured, called, step>>

\* --------------------------------------------------- saturating arithmetic


\* Mutant: the addition wraps around instead of clamping.
wrapping_add_u128(a, b) == (a + b) % (U128Max + 1)

saturating_add_u128(a, b) == IF a + b > U128Max THEN U128Max ELSE a + b

saturating_mul_u128(a, b) == IF a * b > U128Max THEN U128Max ELSE a * b

saturating_add_u32(a, b) == IF a + b > U32Max THEN U32Max ELSE a + b

\* ------------------------------------------------------------ DelegateInfo

DelegateInfo_new(owner, height) ==
    [owner |-> owner, delegate_to |-> owner, delegate_at |-> height]

\* DelegateInfo::update(delegate): the explicit delegate-update transition.
DelegateInfo_update(self, delegate, height) ==
    [owner |-> self.owner, delegate_to |-> delegate, delegate_at |-> height]

\* --------------------------------------------------------------- StakeInfo


\* Mutant: the record is stamped with the default block number.
StakeInfo_new_default_height(height) ==
    [reputation |-> REPUTATION_FACTOR,
     blockheight |-> 0,
     stake_score |-> INITIAL_STAKE_SCORE]

StakeInfo_new(height) ==
    [reputation |-> REPUTATION_FACTOR,
     blockheight |-> height,
     stake_score |-> INITIAL_STAKE_SCORE]


\* Mutant: the multiplier is the reputation after the increment.
StakeInfo_update_new_reputation(self, gas, height) ==
    IF height > self.blockheight
    THEN LET new_reputation == saturating_add_u32(self.reputation, REPUTATION_FACTOR)
         IN  [reputation  |-> new_reputation,
              blockheight |-> height,
              stake_score |-> saturating_add_u128(
                                  saturating_mul_u128(gas, new_reputation),
                                  self.stake_score)]
    ELSE [reputation  |-> self.reputation,
          blockheight |-> height,
          stake_score |-> saturating_add_u128(gas, self.stake_score)]

\* Mutant: the new-block branch forgets the score accrued so far.
StakeInfo_update_forget_score(self, gas, height) ==
    IF height > self.blockheight
    THEN [reputation  |-> saturating_add_u32(self.reputation, REPUTATION_FACTOR),
          blockheight |-> height,
          stake_score |-> saturating_mul_u128(gas, self.reputation)]
    ELSE [reputation  |-> self.reputation,
          blockheight |-> height,
          stake_score |-> saturating_add_u128(gas, self.stake_score)]

\* Mutant: the block comparison is >= instead of >.
StakeInfo_update_same_block(self, gas, height) ==
    IF height >= self.blockheight
    THEN [reputation  |-> saturating_add_u32(self.reputation, REPUTATION_FACTOR),
          blockheight |-> height,
          stake_score |-> saturating_add_u128(
                              saturating_mul_u128(gas, self.reputation),
                              self.stake_score)]
    ELSE [reputation  |-> self.reputation,
          blockheight |-> height,
          stake_score |-> saturating_add_u128(gas, self.stake_score)]


\* Mutant: the same-block branch weights the gas by the reputation too.
StakeInfo_update_always_weighted(self, gas, height) ==
    IF height > self.blockheight
    THEN [reputation  |-> saturating_add_u32(self.reputation, REPUTATION_FACTOR),
          blockheight |-> height,
          stake_score |-> saturating_add_u128(
                              saturating_mul_u128(gas, self.reputation),
                              self.stake_score)]
    ELSE [reputation  |-> self.reputation,
          blockheight |-> height,
          stake_score |-> saturating_add_u128(
                              saturating_mul_u128(gas, self.reputation),
                              self.stake_score)]


\* Mutant: the new-block branch keeps the record's old blockheight.
StakeInfo_update_stale_height(self, gas, height) ==
    IF height > self.blockheight
    THEN [reputation  |-> saturating_add_u32(self.reputation, REPUTATION_FACTOR),
          blockheight |-> self.blockheight,
          stake_score |-> saturating_add_u128(
                              saturating_mul_u128(gas, self.reputation),
                              self.stake_score)]
    ELSE [reputation  |-> self.reputation,
          blockheight |-> height,
          stake_score |-> saturating_add_u128(gas, self.stake_score)]


\* Mutant: a new block raises the reputation only when gas was spent.
StakeInfo_update_gas_gated(self, gas, height) ==
    IF height > self.blockheight
    THEN [reputation  |-> IF gas > 0
                          THEN saturating_add_u32(self.reputation, REPUTATION_FACTOR)
                          ELSE self.reputation,
          blockheight |-> height,
          stake_score |-> saturating_add_u128(
                              saturating_mul_u128(gas, self.reputation),
                              self.stake_score)]
    ELSE [reputation  |-> self.reputation,
          blockheight |-> height,
          stake_score |-> saturating_add_u128(gas, self.stake_score)]

StakeInfo_update(self, gas, height) ==
    LET current_reputation == self.reputation
        gas_cast == gas
    IN  IF height > self.blockheight
        THEN [reputation  |-> saturating_add_u32(current_reputation, REPUTATION_FACTOR),
              blockheight |-> height,
              stake_score |-> saturating_add_u128(
                                  saturating_mul_u128(gas_cast, current_reputation),
                                  self.stake_score)]
        ELSE [reputation  |-> current_reputation,
              blockheight |-> height,
              stake_score |-> saturating_add_u128(gas_cast, self.stake_score)]

\* ------------------------------------------------------------ StakeRequest

Staked(contract, stake_score) ==
    [event |-> "Staked", contract |-> contract, stake_score |-> stake_score]

ReadyToStake(contract) ==
    [event |-> "ReadyToStake", contract |-> contract]


\* Mutant: the maturity gate is missing.
EffectiveGas_ungated(delegate_info, gas) == gas

\* Effective gas: zero while the contract has not delegated at all.
EffectiveGas(delegate_info, gas) ==
    IF delegate_info.owner # delegate_info.delegate_to THEN gas ELSE 0


\* Mutant: Staked is deposited whether or not the contract is delegated.
StakedEvents_always(delegate_info, contract_addr, new_stake_info) ==
    <<Staked(contract_addr, new_stake_info.stake_score)>>

StakedEvents(delegate_info, contract_addr, new_stake_info) ==
    IF delegate_info.owner # delegate_info.delegate_to
    THEN <<Staked(contract_addr, new_stake_info.stake_score)>>
    ELSE <<>>


\* Mutant: the eligibility check is a threshold (>=) instead of an equality.
ReadyEvents_threshold(contract_addr, new_stake_info) ==
    IF new_stake_info.reputation >= MIN_REPUTATION
    THEN <<ReadyToStake(contract_addr)>>
    ELSE <<>>

ReadyEvents(contract_addr, new_stake_info) ==
    IF new_stake_info.reputation = MIN_REPUTATION
    THEN <<ReadyToStake(contract_addr)>>
    ELSE <<>>


\* Mutant: the bootstrap path forgets to insert the DelegateInfo.
StakeRequest_empty_no_delegate(sm, dm, origin, contract_addr, height) ==
    [ret      |-> "Ok",
     path     |-> "empty",
     stakes   |-> [sm EXCEPT ![contract_addr] = StakeInfo_new(height)],
     delegs   |-> dm,
     emitted  |-> <<>>]


\* Mutant: the bootstrap path initialises the whole StakeInfoMap.
StakeRequest_empty_clobber(sm, dm, origin, contract_addr, height) ==
    [ret      |-> "Ok",
     path     |-> "empty",
     stakes   |-> [c \in DOMAIN sm |-> StakeInfo_new(height)],
     delegs   |-> [dm EXCEPT ![contract_addr] = DelegateInfo_new(origin, height)],
     emitted  |-> <<>>]

\* StakeRequest::empty: what the bootstrap path writes, returns and emits.
StakeRequest_empty(sm, dm, origin, contract_addr, height) ==
    [ret      |-> "Ok",
     path     |-> "empty",
     stakes   |-> [sm EXCEPT ![contract_addr] = StakeInfo_new(height)],
     delegs   |-> [dm EXCEPT ![contract_addr] = DelegateInfo_new(origin, height)],
     emitted  |-> <<>>]


\* Mutant: a missing record is absorbed, the call returns Ok and does nothing.
StakeRequest_new_absorbing(sm, dm, contract_addr, gas, height) ==
    IF dm[contract_addr] = None \/ sm[contract_addr] = None
    THEN [ret |-> "Ok", path |-> "new",
          stakes |-> sm, delegs |-> dm, emitted |-> <<>>]
    ELSE LET delegate_info  == dm[contract_addr]
             stake_info     == sm[contract_addr]
             new_stake_info == StakeInfo_update(stake_info,
                                   EffectiveGas(delegate_info, gas), height)
         IN  [ret     |-> "Ok",
              path    |-> "new",
              stakes  |-> [sm EXCEPT ![contract_addr] = new_stake_info],
              delegs  |-> dm,
              emitted |-> StakedEvents(delegate_info, contract_addr, new_stake_info)
                          \o ReadyEvents(contract_addr, new_stake_info)]


\* Mutant: the update path writes the DelegateInfo back, stamped with the
\* current block.
StakeRequest_new_restamp_delegate(sm, dm, contract_addr, gas, height) ==
    IF dm[contract_addr] = None \/ sm[contract_addr] = None
    THEN [ret |-> "NoStakeExists", path |-> "new",
          stakes |-> sm, delegs |-> dm, emitted |-> <<>>]
    ELSE LET delegate_info  == dm[contract_addr]
             stake_info     == sm[contract_addr]
             new_stake_info == StakeInfo_update(stake_info,
                                   EffectiveGas(delegate_info, gas), height)
         IN  [ret     |-> "Ok",
              path    |-> "new",
              stakes  |-> [sm EXCEPT ![contract_addr] = new_stake_info],
              delegs  |-> [dm EXCEPT ![contract_addr] =
                              [delegate_info EXCEPT !.delegate_at = height]],
              emitted |-> StakedEvents(delegate_info, contract_addr, new_stake_info)
                          \o ReadyEvents(contract_addr, new_stake_info)]


\* Mutant: the StakeInfo is updated and inserted before the DelegateInfo is
\* looked up.
StakeRequest_new_write_first(sm, dm, contract_addr, gas, height) ==
    IF sm[contract_addr] = None
    THEN [ret |-> "NoStakeExists", path |-> "new",
          stakes |-> sm, delegs |-> dm, emitted |-> <<>>]
    ELSE IF dm[contract_addr] = None
    THEN [ret |-> "NoStakeExists", path |-> "new",
          stakes |-> [sm EXCEPT ![contract_addr] =
                         StakeInfo_update(sm[contract_addr], gas, height)],
          delegs |-> dm, emitted |-> <<>>]
    ELSE LET delegate_info  == dm[contract_addr]
             stake_info     == sm[contract_addr]
             new_stake_info == StakeInfo_update(stake_info,
                                   EffectiveGas(delegate_info, gas), height)
         IN  [ret     |-> "Ok",
              path    |-> "new",
              stakes  |-> [sm EXCEPT ![contract_addr] = new_stake_info],
              delegs  |-> dm,
              emitted |-> StakedEvents(delegate_info, contract_addr, new_stake_info)
                          \o ReadyEvents(contract_addr, new_stake_info)]

\* StakeRequest::new: what the update path writes, returns and emits.
StakeRequest_new(sm, dm, contract_addr, gas, height) ==
    IF dm[contract_addr] = None \/ sm[contract_addr] = None
    THEN [ret |-> "NoStakeExists", path |-> "new",
          stakes |-> sm, delegs |-> dm, emitted |-> <<>>]
    ELSE LET delegate_info  == dm[contract_addr]
             stake_info     == sm[contract_addr]
             new_stake_info == StakeInfo_update(stake_info,
                                   EffectiveGas(delegate_info, gas), height)
         IN  [ret     |-> "Ok",
              path    |-> "new",
              stakes  |-> [sm EXCEPT ![contract_addr] = new_stake_info],
              delegs  |-> dm,
              emitted |-> StakedEvents(delegate_info, contract_addr, new_stake_info)
                          \o ReadyEvents(contract_addr, new_stake_info)]

\* StakeRequest::stake: the entry point.
StakeRequest_stake(sm, dm, origin, contract_addr, gas, height) ==
    IF sm[contract_addr] # None
    THEN StakeRequest_new(sm, dm, contract_addr, gas, height)
    ELSE StakeRequest_empty(sm, dm, origin, contract_addr, height)

\* ----------------------------------------------------------------- actions

NoCall == [op |-> "none"]

\* One contract invocation reporting its gas: stake(origin, contract, gas).
Stake(origin, contract_addr, gas) ==
    LET out == StakeRequest_stake(StakeInfoMap, DelegateInfoMap,
                                  origin, contract_addr, gas, now)
    IN  /\ StakeInfoMap' = out.stakes
        /\ DelegateInfoMap' = out.delegs
        /\ events' = out.emitted
        /\ call' = [op |-> "stake", origin |-> origin, contract |-> contract_addr,
                    gas |-> gas, height |-> now, path |-> out.path, ret |-> out.ret,
                    stake_info |-> StakeInfoMap[contract_addr],
                    delegate_info |-> DelegateInfoMap[contract_addr]]
        /\ called' = [called EXCEPT ![contract_addr] =
                          IF out.path = "empty" THEN {now} ELSE @ \cup {now}]
        /\ UNCHANGED <<now, matured>>

\* The external delegate-update on an existing record.
Delegate(contract_addr, delegate) ==
    /\ DelegateInfoMap[contract_addr] # None
    /\ DelegateInfoMap' = [DelegateInfoMap EXCEPT ![contract_addr] =
                              DelegateInfo_update(@, delegate, now)]
    /\ matured' = IF DelegateInfoMap[contract_addr].owner # delegate
                  THEN matured \cup {contract_addr}
                  ELSE matured
    /\ events' = <<>>
    /\ call' = NoCall
    /\ UNCHANGED <<now, StakeInfoMap, called>>

\* The clock: the next block begins.
NextBlock ==
    /\ now' = now + 1
    /\ events' = <<>>
    /\ call' = NoCall
    /\ UNCHANGED <<StakeInfoMap, DelegateInfoMap, matured, called>>

EmptyLedger == [c \in ContractAddrs |-> None]

\* ------------------------------------ Spec: one contract, its whole lifetime

Init ==
    /\ now = 0
    /\ StakeInfoMap = EmptyLedger
    /\ DelegateInfoMap = EmptyLedger
    /\ events = <<>>
    /\ call = NoCall
    /\ matured = {}
    /\ called = [c \in ContractAddrs |-> {}]
    /\ step = 0

StakeAny ==
    \E o \in Accounts, g \in GasValues : Stake(o, Subject, g) /\ UNCHANGED step

DelegateAny ==
    \E v \in Accounts : Delegate(Subject, v) /\ UNCHANGED step

Tick == now < MaxBlock /\ NextBlock /\ UNCHANGED step

Next == StakeAny \/ DelegateAny \/ Tick

Spec == Init /\ [][Next]_vars

\* ------------------------- SpecLedger: every contract, from the empty ledger

LedgerStake ==
    \E o \in Accounts, c \in ContractAddrs, g \in LedgerGasValues :
        Stake(o, c, g) /\ UNCHANGED step

LedgerDelegate ==
    \E c \in ContractAddrs, v \in Accounts : Delegate(c, v) /\ UNCHANGED step

LedgerTick == now < MaxBlockLedger /\ NextBlock /\ UNCHANGED step

NextLedger == LedgerStake \/ LedgerDelegate \/ LedgerTick

SpecLedger == Init /\ [][NextLedger]_vars

\* --------------- SpecAnyLedger: stake() from any contents of the two maps

StakeInfos ==
    [reputation : {1, MIN_REPUTATION - 1}, blockheight : {0}, stake_score : {0}]

DelegateInfos ==
    [owner : {"O"}, delegate_to : Accounts, delegate_at : {0}]

InitAnyLedger ==
    /\ now \in 0..MaxBlockLedger
    /\ StakeInfoMap \in [ContractAddrs -> StakeInfos \cup {None}]
    /\ DelegateInfoMap \in [ContractAddrs -> DelegateInfos \cup {None}]
    /\ events = <<>>
    /\ call = NoCall
    /\ matured = {}
    /\ called = [c \in ContractAddrs |-> {}]
    /\ step = 0

NextAnyLedger == LedgerStake

SpecAnyLedger == InitAnyLedger /\ [][NextAnyLedger]_vars

\* ------- SpecUpdate: StakeInfo::update on any record, gas and current height

\* Records of the followed contract: every reputation up to the ceiling, every
\* blockheight not after the current block, scores from zero to the ceiling.
UpdateInputs(height) ==
    [reputation : 1..U32Max, blockheight : 0..height,
     stake_score : {0, 12, U128Max}]

InitUpdate ==
    /\ now \in 0..MaxBlock
    /\ \E r \in UpdateInputs(now) :
          StakeInfoMap = [EmptyLedger EXCEPT ![Subject] = r]
    /\ \E o \in Accounts, v \in Accounts :
          DelegateInfoMap = [EmptyLedger EXCEPT ![Subject] =
                                [owner |-> o, delegate_to |-> v, delegate_at |-> 0]]
    /\ events = <<>>
    /\ call = NoCall
    /\ matured = {}
    /\ called = [c \in ContractAddrs |-> {}]
    /\ step = 0

NextUpdate == StakeAny

SpecUpdate == InitUpdate /\ [][NextUpdate]_vars

\* ------------------------------------- SpecScenarioA: the scenario A script
\* Blocks 10..12, starting from a ledger that has no record yet; `step` follows
\* the script while the run agrees with it.

\* Position in the script after stake(o, c, g) at `height`: 0 -> 1 -> 2 by the
\* first two invocations, 3 -> 4 by the third; -1 once the run leaves the script.
AfterStake(s, o, c, g, height) ==
    IF s = 0 /\ o = "O" /\ c = Subject /\ g = 5 /\ height = 10 THEN 1
    ELSE IF s = 1 /\ o = "O" /\ c = Subject /\ g = 7 /\ height = 11 THEN 2
    ELSE IF s = 3 /\ o = "O" /\ c = Subject /\ g = 10 /\ height = 12 THEN 4
    ELSE -1

\* Position in the script after the delegate-update of c to v: 2 -> 3.
AfterDelegate(s, c, v) ==
    IF s = 2 /\ c = Subject /\ v = "V" THEN 3 ELSE -1

InitScenarioA ==
    /\ now = 10
    /\ StakeInfoMap = EmptyLedger
    /\ DelegateInfoMap = EmptyLedger
    /\ events = <<>>
    /\ call = NoCall
    /\ matured = {}
    /\ called = [c \in ContractAddrs |-> {}]
    /\ step = 0

ScenarioStake ==
    \E o \in Accounts, g \in GasValues :
        Stake(o, Subject, g) /\ step' = AfterStake(step, o, Subject, g, now)

ScenarioDelegate ==
    \E v \in Accounts :
        Delegate(Subject, v) /\ step' = AfterDelegate(step, Subject, v)

ScenarioTick ==
    /\ now < 12
    /\ NextBlock
    /\ step' = IF step \in 0..3 THEN step ELSE -1

NextScenarioA == ScenarioStake \/ ScenarioDelegate \/ ScenarioTick

SpecScenarioA == InitScenarioA /\ [][NextScenarioA]_vars

\* ------------------------------------------------------------------ claims

\* The operation performed last was stake(call.origin, call.contract, call.gas).
CallIsStake == call.op = "stake"

\* ... and it found no record of the contract (bootstrap).
Bootstrapped ==
    CallIsStake /\ call.stake_info = None /\ call.delegate_info = None

\* ... and it found both records of the contract (update).
Updated ==
    CallIsStake /\ call.stake_info # None /\ call.delegate_info # None

\* The contract was delegated to a distinct account when the call read it.
WasDelegated == call.delegate_info.owner # call.delegate_info.delegate_to

\* The update was the first one observed in a new block.
WasNewBlock == call.height > call.stake_info.blockheight

\* The record the call left in the ledger.
Written == StakeInfoMap[call.contract]

EventsNamed(kind) == SelectSeq(events, LAMBDA e : e.event = kind)

Min(a, b) == IF a < b THEN a ELSE b

\* C1: ReadyToStake{contract} is emitted on the exact call whose resulting
\* reputation becomes 3 (it was not 3 before the call) and on no other call;
\* a later call in the same block that leaves reputation at 3 does not emit
\* it again.
C1_ReadyToStakeEdgeTriggered ==
    /\ Updated =>
          (EventsNamed("ReadyToStake") # <<>>
              <=> (/\ Written.reputation = MIN_REPUTATION
                   /\ call.stake_info.reputation # MIN_REPUTATION))
    /\ Bootstrapped => EventsNamed("ReadyToStake") = <<>>

\* C2 as stated: scenario A ends with stake_score = 0 + 10*3 = 30 and the
\* events Staked{C,30}, ReadyToStake{C}.
C2_ScenarioA_AsStated ==
    step = 4 =>
        /\ Written = [reputation |-> 3, blockheight |-> 12, stake_score |-> 30]
        /\ events = <<Staked(Subject, 30), ReadyToStake(Subject)>>

\* C2 amended: scenario A. stake(O,C,5) at block 10 bootstraps {reputation 1,
\* stake_score 0, owner = delegate_to = O} with no events; stake(O,C,7) at
\* block 11 while self-delegated yields reputation 2, stake_score 0 and no
\* events; after delegate_to is set to V, stake(O,C,10) at block 12 yields
\* reputation 3 and stake_score = 0 + 10*2 = 20 (the multiplier is the
\* reputation before the increment) and emits Staked{C,20}, ReadyToStake{C}.
C2_ScenarioA ==
    /\ step = 1 =>
          /\ StakeInfoMap[Subject] =
                 [reputation |-> 1, blockheight |-> 10, stake_score |-> 0]
          /\ DelegateInfoMap[Subject] =
                 [owner |-> "O", delegate_to |-> "O", delegate_at |-> 10]
          /\ events = <<>>
    /\ step = 2 =>
          /\ StakeInfoMap[Subject] =
                 [reputation |-> 2, blockheight |-> 11, stake_score |-> 0]
          /\ DelegateInfoMap[Subject] =
                 [owner |-> "O", delegate_to |-> "O", delegate_at |-> 10]
          /\ events = <<>>
    /\ step = 3 =>
          /\ StakeInfoMap[Subject] =
                 [reputation |-> 2, blockheight |-> 11, stake_score |-> 0]
          /\ DelegateInfoMap[Subject].owner = "O"
          /\ DelegateInfoMap[Subject].delegate_to = "V"
    /\ step = 4 =>
          /\ StakeInfoMap[Subject] =
                 [reputation |-> 3, blockheight |-> 12, stake_score |-> 20]
          /\ events = <<Staked(Subject, 20), ReadyToStake(Subject)>>

\* The third invocation of scenario A has just returned.
C2_Witness == step = 4 /\ CallIsStake /\ call.gas = 10 /\ now = 12

\* C3: stake(origin, contract, gas) on a contract with no record writes
\* StakeInfo {1, current height, 0} and DelegateInfo {origin, origin, current
\* height}, whatever the gas, and emits nothing.
C3_Bootstrap ==
    Bootstrapped =>
        /\ call.ret = "Ok"
        /\ StakeInfoMap[call.contract] =
               [reputation |-> 1, blockheight |-> now, stake_score |-> 0]
        /\ DelegateInfoMap[call.contract] =
               [owner |-> call.origin, delegate_to |-> call.origin,
                delegate_at |-> now]
        /\ events = <<>>

\* A bootstrap in a later block, by V, reporting nonzero gas.
C3_Witness ==
    Bootstrapped /\ call.gas = 10 /\ call.origin = "V" /\ now = 2

\* C4: while owner = delegate_to every stake() call leaves stake_score as it
\* was; a contract never delegated to a distinct account has stake_score 0.
C4_MaturityGating ==
    /\ (Updated /\ ~WasDelegated) =>
          Written.stake_score = call.stake_info.stake_score
    /\ \A c \in ContractAddrs :
          (StakeInfoMap[c] # None /\ c \notin matured) =>
              StakeInfoMap[c].stake_score = 0

\* A self-delegated contract is invoked with nonzero gas in a new block, after
\* it had accrued score and reverted to self-delegation.
C4_Witness ==
    /\ Updated /\ ~WasDelegated /\ WasNewBlock
    /\ call.gas = 10
    /\ call.stake_info.stake_score > 0

\* C5: across stake() update calls stake_score never decreases and reputation
\* never decreases.
C5_Monotonic ==
    Updated =>
        /\ Written.stake_score >= call.stake_info.stake_score
        /\ Written.reputation >= call.stake_info.reputation

\* An update in a new block of a delegated contract that already holds score.
C5_Witness ==
    /\ Updated /\ WasDelegated /\ WasNewBlock
    /\ call.stake_info.stake_score > 0
    /\ Written.stake_score > call.stake_info.stake_score
    /\ Written.reputation > call.stake_info.reputation

\* C6: an update of a record whose blockheight is the current height leaves
\* reputation unchanged; reputation rises by at most 1 per call, and only on
\* the first update in a new block.
C6_OneIncrementPerBlock ==
    Updated =>
        /\ ~WasNewBlock => Written.reputation = call.stake_info.reputation
        /\ Written.reputation <= call.stake_info.reputation + 1

\* A second invocation in the same block, delegated, with nonzero gas.
C6_Witness ==
    /\ Updated /\ WasDelegated /\ ~WasNewBlock
    /\ call.gas = 7
    /\ call.stake_info.reputation = 2

\* C7: on the update path exactly one Staked event is emitted if
\* owner # delegate_to and none otherwise, and it carries the stake_score just
\* written to the ledger.
C7_StakedPolicy ==
    Updated =>
        IF WasDelegated
        THEN EventsNamed("Staked") =
                 <<Staked(call.contract, StakeInfoMap[call.contract].stake_score)>>
        ELSE EventsNamed("Staked") = <<>>

\* A delegated update that changed the score and emitted Staked.
C7_Witness ==
    /\ Updated /\ WasDelegated
    /\ Written.stake_score # call.stake_info.stake_score
    /\ EventsNamed("Staked") # <<>>

\* C8: stake_score clamps at the maximum: the score written is the smaller of
\* the maximum and stake_score + gas*reputation (new block) or
\* stake_score + gas (same block); a record at the maximum stays there.
C8_Saturation ==
    Updated =>
        LET g == IF WasDelegated THEN call.gas ELSE 0
            exact == IF WasNewBlock
                     THEN call.stake_info.stake_score + g * call.stake_info.reputation
                     ELSE call.stake_info.stake_score + g
        IN  /\ Written.stake_score = Min(U128Max, exact)
            /\ call.stake_info.stake_score = U128Max =>
                   Written.stake_score = U128Max

\* A record at the maximum is updated with nonzero effective gas.
C8_Witness ==
    /\ Updated /\ WasDelegated
    /\ call.gas # 0
    /\ call.stake_info.stake_score = U128Max

\* C9: from the empty ledger the contracts with a StakeInfo are the contracts
\* with a DelegateInfo, and no stake() call returns NoStakeExists.
C9_NoStakeExistsUnreachable ==
    /\ \A c \in ContractAddrs :
          (StakeInfoMap[c] = None) <=> (DelegateInfoMap[c] = None)
    /\ CallIsStake => call.ret = "Ok"

\* Every contract has been bootstrapped, one re-delegated, and an update
\* returned.
C9_Witness ==
    /\ \A c \in ContractAddrs : StakeInfoMap[c] # None
    /\ Updated /\ WasDelegated
    /\ call.ret = "Ok"

\* Exactly one of the two records existed when the call read the ledger.
OneRecordOnly ==
    CallIsStake /\ ((call.stake_info = None) # (call.delegate_info = None))

\* C10 as stated: whenever exactly one of StakeInfo and DelegateInfo exists
\* for a contract, stake() on it fails with NoStakeExists.
C10_AsStated == OneRecordOnly => call.ret = "NoStakeExists"

\* C10 amended: when a StakeInfo exists without a DelegateInfo, stake() fails
\* with NoStakeExists and writes and emits nothing; when a DelegateInfo exists
\* without a StakeInfo, stake() takes the bootstrap path: it returns Ok and
\* replaces the DelegateInfo by a self-delegated record of the origin.
C10_MissingRecord ==
    /\ (CallIsStake /\ call.stake_info # None /\ call.delegate_info = None) =>
          /\ call.ret = "NoStakeExists"
          /\ StakeInfoMap[call.contract] = call.stake_info
          /\ DelegateInfoMap[call.contract] = None
          /\ events = <<>>
    /\ (CallIsStake /\ call.stake_info = None /\ call.delegate_info # None) =>
          /\ call.ret = "Ok"
          /\ StakeInfoMap[call.contract] =
                 [reputation |-> 1, blockheight |-> now, stake_score |-> 0]
          /\ DelegateInfoMap[call.contract] =
                 [owner |-> call.origin, delegate_to |-> call.origin,
                  delegate_at |-> now]
          /\ events = <<>>

\* stake() with nonzero gas on a contract that has a StakeInfo only.
C10_Witness ==
    /\ CallIsStake /\ call.stake_info # None /\ call.delegate_info = None
    /\ call.gas # 0
    /\ call.ret = "NoStakeExists"

\* C11: StakeInfo::update(gas) at height `now`: if now > blockheight the
\* result is {stake_score + gas * old reputation, old reputation + 1, now},
\* each clamped at its ceiling, the multiplier being the reputation before the
\* increment; otherwise it is {stake_score + gas clamped, reputation
\* unchanged, now}.
C11_UpdateReference ==
    Updated =>
        LET old == call.stake_info
            g == IF WasDelegated THEN call.gas ELSE 0
        IN  Written =
                IF call.height > old.blockheight
                THEN [reputation  |-> Min(U32Max, old.reputation + 1),
                      blockheight |-> call.height,
                      stake_score |-> Min(U128Max,
                                          old.stake_score + g * old.reputation)]
                ELSE [reputation  |-> old.reputation,
                      blockheight |-> call.height,
                      stake_score |-> Min(U128Max, old.stake_score + g)]

\* A new-block update with nonzero gas of a record with reputation 2 whose
\* result does not saturate: 12 + 7*2 = 26, reputation 3.
C11_Witness ==
    /\ Updated /\ WasDelegated /\ WasNewBlock
    /\ call.gas = 7
    /\ call.stake_info.reputation = 2
    /\ call.stake_info.stake_score = 12
    /\ Written.stake_score = 26
    /\ Written.reputation = 3

\* C12: on the update path ReadyToStake{contract} is emitted if and only if
\* the reputation written by the call equals MIN_REPUTATION, whatever the
\* delegation status and the gas; a never-delegated contract emits it too.
C12_ReadyToStakeIffReputationIs3 ==
    Updated =>
        EventsNamed("ReadyToStake") =
            IF Written.reputation = 3
            THEN <<ReadyToStake(call.contract)>>
            ELSE <<>>

\* A contract that was never delegated (score 0, no Staked event) reaches
\* reputation 3 on a call reporting nonzero gas and emits ReadyToStake.
C12_Witness ==
    /\ Updated /\ call.contract \notin matured
    /\ call.gas # 0
    /\ call.stake_info.reputation = 2
    /\ Written.reputation = 3 /\ Written.stake_score = 0
    /\ events = <<ReadyToStake(call.contract)>>

\* C13: on the update path stake() leaves the contract's DelegateInfo (owner,
\* delegate_to, delegate_at) as it was, so stake() never moves a contract
\* between the immature and the delegated state.
C13_DelegationUntouched ==
    Updated => DelegateInfoMap[call.contract] = call.delegate_info

\* An update of a contract delegated in an earlier block.
C13_Witness ==
    /\ Updated /\ WasDelegated
    /\ call.delegate_info.delegate_at < now
    /\ call.gas # 0

\* C14: a contract's blockheight never decreases from one stake() call to the
\* next, never lies after the current block, and equals the current block
\* height right after every successful stake() call.
C14_BlockheightNeverRegresses ==
    /\ (CallIsStake /\ call.ret = "Ok") => Written.blockheight = now
    /\ Updated => Written.blockheight >= call.stake_info.blockheight
    /\ \A c \in ContractAddrs :
          StakeInfoMap[c] # None => StakeInfoMap[c].blockheight <= now

\* An update two blocks after the record's last one.
C14_Witness ==
    /\ Updated /\ call.ret = "Ok"
    /\ call.stake_info.blockheight + 2 = now
    /\ Written.blockheight = now

\* The block height of the contract's bootstrap.
BootHeight(c) == CHOOSE h \in called[c] : \A k \in called[c] : h <= k

\* C15: below the u32 ceiling a contract's reputation equals the number of
\* distinct block heights at which stake() has been called for it since and
\* including its bootstrap, hence
\* 1 <= reputation <= 1 + (blockheight - bootstrap height), whatever the gas
\* values and the delegation status.
C15_ReputationCountsBlocks ==
    \A c \in ContractAddrs :
        (StakeInfoMap[c] # None /\ Cardinality(called[c]) < U32Max) =>
            /\ StakeInfoMap[c].reputation = Cardinality(called[c])
            /\ 1 <= StakeInfoMap[c].reputation
            /\ StakeInfoMap[c].reputation
                   <= 1 + (StakeInfoMap[c].blockheight - BootHeight(c))

\* Reputation 3 after calls in blocks 0, 2 and 3 only (block 1 skipped), the
\* last call a repeated zero-gas call in block 3 of a self-delegated contract.
C15_Witness ==
    /\ Updated /\ ~WasNewBlock /\ ~WasDelegated
    /\ call.gas = 0
    /\ called[call.contract] = {0, 2, 3}
    /\ Written.reputation = 3

\* C16: whenever stake() returns NoStakeExists, the call has written neither
\* ledger map and has emitted no event.
C16_FailureIsAtomic ==
    [][(call'.op = "stake" /\ call'.ret = "NoStakeExists") =>
          /\ StakeInfoMap' = StakeInfoMap
          /\ DelegateInfoMap' = DelegateInfoMap
          /\ events' = <<>>]_vars

\* A failed call reporting gas 20 in block 1 on a contract with a StakeInfo
\* only, while the other contract has both records.
C16_Witness ==
    /\ CallIsStake /\ call.ret = "NoStakeExists"
    /\ call.gas = 20 /\ now = 1
    /\ StakeInfoMap[call.contract] = call.stake_info
    /\ \E d \in ContractAddrs \ {call.contract} :
          StakeInfoMap[d] # None /\ DelegateInfoMap[d] # None

\* The ledger with every record but those of contract c erased.
Only(map, c) == [d \in ContractAddrs |-> IF d = c THEN map[d] ELSE None]

\* C17: stake(origin, c, gas) leaves the StakeInfo and DelegateInfo of every
\* other contract unchanged, every event it emits names c, and what it writes
\* for c, returns and emits is what it would on a ledger holding the records
\* of c alone.
C17_Isolation ==
    [][call'.op = "stake" =>
          LET c == call'.contract
              alone == StakeRequest_stake(Only(StakeInfoMap, c),
                                          Only(DelegateInfoMap, c),
                                          call'.origin, c, call'.gas, now)
          IN  /\ \A d \in ContractAddrs \ {c} :
                    /\ StakeInfoMap'[d] = StakeInfoMap[d]
                    /\ DelegateInfoMap'[d] = DelegateInfoMap[d]
              /\ \A i \in 1..Len(events') : events'[i].contract = c
              /\ StakeInfoMap'[c] = alone.stakes[c]
              /\ DelegateInfoMap'[c] = alone.delegs[c]
              /\ events' = alone.emitted
              /\ call'.ret = alone.ret]_vars

\* An update of D that emits Staked while C holds a different, scored record.
C17_Witness ==
    /\ Updated /\ call.contract = "D"
    /\ events # <<>>
    /\ StakeInfoMap["C"] # None
    /\ StakeInfoMap["C"].stake_score = 20
    /\ StakeInfoMap["C"] # StakeInfoMap["D"]

====
